---- MODULE Spec2Model ----
(***************************************************************************)
(* A model of the configuration layer of raster-vision's PyTorch learner   *)
(* (learner_config.py): LearnerConfig.update, the dataset builders of      *)
(* ImageDataConfig / GeoDataConfig with DataConfig.random_subset_dataset,  *)
(* the validate_config methods of ExternalModuleConfig, SolverConfig,      *)
(* GeoDataWindowConfig, DataConfig, GeoDataConfig and LearnerConfig, the   *)
(* channel display groups of PlotOptions, get_data_dirs,                   *)
(* get_data_transforms and model_config_upgrader.                          *)
(*                                                                         *)
(* Conventions.  An Optional[T] field is the empty tuple None or the       *)
(* one-element tuple Some(v).  A Python exception is the name of its class *)
(* in the variable error ("none" when the call returned); an operation is  *)
(* one atomic action whose next state holds every assignment the handler   *)
(* made before it returned or raised.                                      *)
(***************************************************************************)
EXTENDS Integers, Sequences, FiniteSets, TLC

VARIABLES
    learner,   \* LearnerConfig: the modes and the tensorboard switches
    solver,    \* SolverConfig: the fields of the class
    data,      \* DataConfig: the fields of the class
    ext,       \* an ExternalModuleConfig: uri, github_repo
    window,    \* a GeoDataWindowConfig
    given,     \* the window config as it was constructed
    disk,      \* storage: what each source URI, or the scene's raster, holds
    rng,       \* state of the process-global generator of module random
    io,        \* the downloads, syncs and unzips performed so far, in order
    op,        \* the operation executed last ("init" before any)
    args,      \* the arguments of the operation executed last
    pre,       \* the configs and generator state before that operation
    result,    \* what that operation returned
    error      \* the exception that operation raised, "none" if it returned

vars == <<learner, solver, data, ext, window, given, disk, rng, io, op,
          args, pre, result, error>>

\* ------------------------------------------------------------------ bounds

MaxImgSz == 5       \* data.img_sz is drawn from 1..MaxImgSz
MaxClasses == 2     \* at most this many class names
MaxLen == 4         \* length of the dataset handed to random_subset_dataset
MaxTrain == 3       \* training samples a source holds
MaxChannels == 4    \* img_channels is drawn from 1..MaxChannels
MaxGroupLen == 4    \* a channel display group holds at most this many indices
MaxUris == 2        \* a URI list handed to get_data_dirs has at most this many
MaxIo == 1          \* get_data_dirs is called while io holds at most this many
MaxAugmentors == 2  \* data.augmentors holds at most this many names
MaxScenes == 3      \* scene ids are drawn from 1..MaxScenes
MaxVersion == 2     \* stored config versions are drawn from 0..MaxVersion
MaxExtent == 2      \* a raster extent has at most this many rows and columns
MaxChipSize == 3    \* options.chip_size is drawn from 1..MaxChipSize
MaxWindowSize == 2  \* window sizes are drawn from 1..MaxWindowSize

\* ------------------------------------------------------------- Optional[T]

None == <<>>
Some(v) == <<v>>
IsNone(o) == o = <<>>
Val(o) == o[1]

Min(a, b) == IF a <= b THEN a ELSE b
Max(a, b) == IF a >= b THEN a ELSE b

NoResult == [kind |-> "nothing"]

\* The return value of a call: the new configs, and the exception if any.
Ok(l, s, d) == [learner |-> l, solver |-> s, data |-> d, error |-> "none"]
Raise(l, s, d, e) == [learner |-> l, solver |-> s, data |-> d, error |-> e]

\* ------------------------------------------------------------ PlotOptions

\* A key of the name -> channels mapping: a title given by the user or the
\* label f'Channels: {[*chs]}' generated from a group's channels.
Title(name) == [label |-> name, chs |-> <<>>]
GeneratedLabel(chs) == [label |-> "Channels: ", chs |-> chs]

ListGroups(gs) == [form |-> "list", groups |-> gs]
DictGroups(items) == [form |-> "dict", items |-> items]

RECURSIVE KeyIndex(_, _, _)
\* Position of key k among items[1..n], 0 if absent.
KeyIndex(items, k, n) ==
    IF n = 0 THEN 0
    ELSE IF items[n].k = k /\ KeyIndex(items, k, n - 1) = 0 THEN n
    ELSE KeyIndex(items, k, n - 1)

RECURSIVE DictFromList(_)
\* {f'Channels: {[*chs]}': list(chs) for chs in groups}: a dict keeps one
\* entry per key, at the position of the key's first insertion, holding the
\* value of its last insertion.
DictFromList(gs) ==
    IF gs = <<>> THEN <<>>
    ELSE LET front == DictFromList(SubSeq(gs, 1, Len(gs) - 1))
             chs == gs[Len(gs)]
             key == GeneratedLabel(chs)
             at == KeyIndex(front, key, Len(front))
         IN  IF at = 0 THEN Append(front, [k |-> key, v |-> chs])
             ELSE [front EXCEPT ![at] = [k |-> key, v |-> chs]]

RangeSeq(n) == [i \in 1..n |-> i - 1]

GroupLenUpToFour(v) == 0 < Len(v) /\ Len(v) <= 4
GroupLenOk(v) == 0 < Len(v) /\ Len(v) <= 3
GroupIndicesOk(v, img_channels) ==
    \A i \in 1..Len(v) : 0 <= v[i] /\ v[i] < img_channels

\* PlotOptions.validate_and_update_channel_display_groups: the mapping it
\* returns, or the error it raises.
validate_and_update_channel_display_groups(groups, img_channels) ==
    IF ~IsNone(groups) /\ Val(groups).form = "list" /\ Val(groups).groups = <<>>
    THEN [error |-> "ConfigError", groups |-> groups]
    ELSE IF ~IsNone(groups) /\ Val(groups).form = "dict" /\ Val(groups).items = <<>>
    THEN [error |-> "ConfigError", groups |-> groups]
    ELSE
      LET items == IF IsNone(groups)
                   THEN << [k |-> Title("Input"),
                            v |-> RangeSeq(Min(3, img_channels))] >>
                   ELSE IF Val(groups).form = "list"
                   THEN DictFromList(Val(groups).groups)
                   ELSE Val(groups).items
          ok == \A i \in 1..Len(items) :
                    GroupLenOk(items[i].v) /\ GroupIndicesOk(items[i].v, img_channels)
      IN  IF ok THEN [error |-> "none", groups |-> Some(DictGroups(items))]
          ELSE [error |-> "ConfigError", groups |-> groups]

\* PlotOptions.update(data_cfg), on the data config that holds the options.
PlotOptions_update(d) ==
    IF IsNone(d.img_channels) THEN [error |-> "none", data |-> d]
    ELSE LET r == validate_and_update_channel_display_groups(
                      Val(d.plot_options).channel_display_groups,
                      Val(d.img_channels))
         IN  IF r.error # "none" THEN [error |-> r.error, data |-> d]
             ELSE [error |-> "none",
                   data |-> [d EXCEPT !.plot_options =
                       Some([channel_display_groups |-> r.groups])]]

\* ------------------------------------------------------------- DataConfig

Colors == {"red", "blue"}

num_classes(d) == Len(d.class_names)

\* "not self.class_colors": None and the empty list are both falsy.
Falsy(o) == IsNone(o) \/ Val(o) = <<>>

\* A slip that draws new colors on every call.
DataConfig_update_redraws_colors(d, colors) ==
    LET d1 == [d EXCEPT !.class_colors = Some(colors)]
    IN  IF IsNone(d1.plot_options)
        THEN [error |-> "AttributeError", data |-> d1]
        ELSE PlotOptions_update(d1)

\* DataConfig.update; colors are the triples color_to_triple() draws, one per
\* class name.  plot_options is Optional: None has no update method.
DataConfig_update(d, colors) ==
    LET d1 == IF Falsy(d.class_colors)
              THEN [d EXCEPT !.class_colors = Some(colors)]
              ELSE d
    IN  IF IsNone(d1.plot_options)
        THEN [error |-> "AttributeError", data |-> d1]
        ELSE PlotOptions_update(d1)

\* ---------------------------------------------------------- LearnerConfig

\* "if self.overfit_mode:" of LearnerConfig.update.  SolverConfig declares
\* the fields of DOMAIN solver; reading any other attribute of the pydantic
\* model raises AttributeError.
ApplyOverfitMode(l, s, d) ==
    IF ~l.overfit_mode THEN Ok(l, s, d)
    ELSE LET d1 == [d EXCEPT !.img_sz = d.img_sz \div 2]
         IN  IF ~l.test_mode THEN Ok(l, s, d1)
             ELSE IF "test_overfit_num_steps" \in DOMAIN s
             THEN Ok(l, [s EXCEPT !.overfit_num_steps = s.test_overfit_num_steps], d1)
             ELSE Raise(l, s, d1, "AttributeError")

\* A slip that forgets to turn the data-loading workers off.
ApplyTestModeKeepsWorkers(l, s, d) ==
    IF ~l.test_mode THEN Ok(l, s, d)
    ELSE Ok(l, [s EXCEPT !.num_epochs = s.test_num_epochs,
                         !.batch_sz = s.test_batch_sz], d)

\* "if self.test_mode:" of LearnerConfig.update.
ApplyTestMode(l, s, d) ==
    IF ~l.test_mode THEN Ok(l, s, d)
    ELSE Ok(l, [s EXCEPT !.num_epochs = s.test_num_epochs,
                         !.batch_sz = s.test_batch_sz],
               [d EXCEPT !.num_workers = 0])

\* LearnerConfig.update: the mode overrides, then model.update and
\* solver.update (both "pass"), then data.update.
LearnerConfig_update(l, s, d, colors) ==
    LET r1 == ApplyOverfitMode(l, s, d)
    IN  IF r1.error # "none" THEN r1
        ELSE LET r2 == ApplyTestMode(r1.learner, r1.solver, r1.data)
                 r3 == DataConfig_update(r2.data, colors)
             IN  Raise(r2.learner, r2.solver, r3.data, r3.error)

\* ------------------------------------------------- the generator of random

SeedValue == 1234

\* The generator of Python's random module is library code; it is modelled
\* as a small deterministic generator: seeding fixes the state, every draw
\* steps it, and the number drawn is a function of the state alone.
seed(a) == a % 16
NextRng(g) == (5 * g + 3) % 16
RngStates == 0..15

\* random._randbelow(n): a number in 0..n-1 and the generator's next state.
randbelow(g, n) == [value |-> (NextRng(g) \div 2) % n, state |-> NextRng(g)]

Swap(x, i, j) == [x EXCEPT ![i] = x[j], ![j] = x[i]]

RECURSIVE shuffle_from(_, _, _)
\* random.shuffle(x): "for i in reversed(range(1, len(x))): j = randbelow(i + 1);
\* x[i], x[j] = x[j], x[i]", here from 0-based position i downwards.
shuffle_from(x, i, g) ==
    IF i < 1 THEN [inds |-> x, state |-> g]
    ELSE LET r == randbelow(g, i + 1)
         IN  shuffle_from(Swap(x, i + 1, r.value + 1), i - 1, r.state)

shuffle(n, g) == shuffle_from(RangeSeq(n), n - 1, g)

\* A slip that shuffles with the generator as the caller left it.
ShuffledIndicesUnseeded(n, g) == shuffle(n, g)

\* "random.seed(1234); inds = list(range(len(ds))); random.shuffle(inds)"
ShuffledIndices(n, g) == shuffle(n, seed(SeedValue))

\* ---------------------------------------------------------------- datasets

\* A sample is <<source, position>>.  A dataset is its class and its samples
\* in order; a Subset also holds the indices it selects from its parent.
ConcatDataset(items) == [kind |-> "ConcatDataset", items |-> items]
Subset(ds, inds) ==
    [kind |-> "Subset", indices |-> inds,
     items |-> [j \in 1..Len(inds) |-> ds.items[inds[j] + 1]]]

\* Python's seq[:stop].
SliceTo(seq, stop) ==
    LET n == Len(seq)
        last == IF stop < 0 THEN Max(n + stop, 0) ELSE Min(stop, n)
    IN  SubSeq(seq, 1, last)

\* int(n * fraction) for the fraction num/den >= 0.
IntOfProduct(n, fraction) == (n * fraction[1]) \div fraction[2]

\* A slip that seeds the generator before it looks at the arguments.
random_subset_dataset_seeds_first(ds, size, fraction, g) ==
    IF IsNone(size) /\ IsNone(fraction)
    THEN [error |-> "none", ds |-> ds, rng |-> seed(SeedValue)]
    ELSE IF ~IsNone(size) /\ ~IsNone(fraction)
    THEN [error |-> "ValueError", ds |-> ds, rng |-> seed(SeedValue)]
    ELSE LET n == Len(ds.items)
             k == IF ~IsNone(fraction) THEN IntOfProduct(n, Val(fraction))
                  ELSE Val(size)
             sh == ShuffledIndices(n, g)
         IN  [error |-> "none", ds |-> Subset(ds, SliceTo(sh.inds, k)),
              rng |-> sh.state]

\* DataConfig.random_subset_dataset with the generator in state g: the
\* dataset returned (ds itself when nothing is asked for), the exception
\* raised, and the generator's state afterwards.
random_subset_dataset(ds, size, fraction, g) ==
    IF IsNone(size) /\ IsNone(fraction)
    THEN [error |-> "none", ds |-> ds, rng |-> g]
    ELSE IF ~IsNone(size) /\ ~IsNone(fraction)
    THEN [error |-> "ValueError", ds |-> ds, rng |-> g]
    ELSE LET n == Len(ds.items)
             k == IF ~IsNone(fraction) THEN IntOfProduct(n, Val(fraction))
                  ELSE Val(size)
             sh == ShuffledIndices(n, g)
         IN  [error |-> "none", ds |-> Subset(ds, SliceTo(sh.inds, k)),
              rng |-> sh.state]

\* dir_to_dataset / scene_to_dataset are abstract in DataConfig; a concrete
\* learner supplies them.  Here a source yields the samples disk holds for it.
dir_to_dataset(dk, u, split) == [i \in 1..dk[u][split] |-> <<u, i>>]
scene_to_dataset(dk, u, split) == [i \in 1..dk[u][split] |-> <<u, i>>]

\* ----------------------------------------------------------- ImageDataConfig

\* get_datasets_from_uri for a URI that is a data directory: make_datasets
\* concatenates the one directory dataset of each split.
get_datasets_from_uri(dk, u) ==
    [train |-> ConcatDataset(dir_to_dataset(dk, u, "train")),
     valid |-> ConcatDataset(dir_to_dataset(dk, u, "valid")),
     test |-> ConcatDataset(dir_to_dataset(dk, u, "test"))]

IntSize(n) == [t |-> "int", n |-> n]
FloatSize(f) == [t |-> "float", f |-> f]
Scalar(v) == [form |-> "scalar", v |-> v]
List(vs) == [form |-> "list", vs |-> vs]

\* The group_sizes of get_datasets_from_group_uris: one Optional size per
\* group, a single value being repeated for every group.
GroupSizes(group_train_sz, group_train_sz_rel, n) ==
    LET chosen == IF ~IsNone(group_train_sz) THEN group_train_sz
                  ELSE group_train_sz_rel
    IN  IF ~IsNone(chosen) /\ Val(chosen).form = "list"
        THEN [i \in 1..Len(Val(chosen).vs) |-> Some(Val(chosen).vs[i])]
        ELSE [i \in 1..n |-> IF IsNone(chosen) THEN None ELSE Some(Val(chosen).v)]

RECURSIVE GroupLoop(_, _, _, _, _)
\* The loop "for uri, size in zip(uris, group_sizes)" up to pair i: the three
\* dataset lists, concatenated, and the generator's state.
GroupLoop(dk, uris, sizes, i, g) ==
    IF i = 0
    THEN [train |-> <<>>, valid |-> <<>>, test |-> <<>>, rng |-> g]
    ELSE LET acc == GroupLoop(dk, uris, sizes, i - 1, g)
             ds == get_datasets_from_uri(dk, uris[i])
             size == sizes[i]
             sub == IF IsNone(size) THEN [ds |-> ds.train, rng |-> acc.rng]
                    ELSE IF Val(size).t = "float"
                    THEN random_subset_dataset(ds.train, None, Some(Val(size).f), acc.rng)
                    ELSE random_subset_dataset(ds.train, Some(Val(size).n), None, acc.rng)
         IN  [train |-> acc.train \o sub.ds.items,
              valid |-> acc.valid \o ds.valid.items,
              test |-> acc.test \o ds.test.items,
              rng |-> sub.rng]

\* ImageDataConfig.get_datasets_from_group_uris.
get_datasets_from_group_uris(dk, uris, group_train_sz, group_train_sz_rel, g) ==
    LET sizes == GroupSizes(group_train_sz, group_train_sz_rel, Len(uris))
        r == GroupLoop(dk, uris, sizes, Min(Len(uris), Len(sizes)), g)
    IN  [train |-> ConcatDataset(r.train), valid |-> ConcatDataset(r.valid),
         test |-> ConcatDataset(r.test), rng |-> r.rng]

\* The cap "if self.train_sz is not None or self.train_sz_rel is not None".
OverallCap(d, ds, g) ==
    IF ~IsNone(d.train_sz) \/ ~IsNone(d.train_sz_rel)
    THEN LET r == random_subset_dataset(ds.train, d.train_sz, d.train_sz_rel, g)
         IN  [error |-> r.error, train |-> r.ds, valid |-> ds.valid,
              test |-> ds.test, rng |-> r.rng]
    ELSE [error |-> "none", train |-> ds.train, valid |-> ds.valid,
          test |-> ds.test, rng |-> g]

\* ImageDataConfig.build: without group_uris the datasets of uri are returned
\* as they are; with group_uris the group datasets are built (the call passes
\* neither group_train_sz nor group_train_sz_rel) and the overall cap applied.
ImageDataConfig_build(d, dk, g) ==
    IF IsNone(d.group_uris)
    THEN LET ds == get_datasets_from_uri(dk, Val(d.uri))
         IN  [error |-> "none", train |-> ds.train, valid |-> ds.valid,
              test |-> ds.test, rng |-> g]
    ELSE OverallCap(d, get_datasets_from_group_uris(dk, Val(d.group_uris), None, None, g), g)

\* ------------------------------------------------------------- GeoDataConfig

RECURSIVE ConcatScenes(_, _, _, _)
ConcatScenes(dk, scenes, split, i) ==
    IF i = 0 THEN <<>>
    ELSE ConcatScenes(dk, scenes, split, i - 1) \o scene_to_dataset(dk, scenes[i], split)

\* GeoDataConfig.make_datasets: one dataset per scene, concatenated per split.
GeoDataConfig_make_datasets(d, dk) ==
    LET sd == d.scene_dataset
    IN  [train |-> ConcatDataset(ConcatScenes(dk, sd.train_scenes, "train",
                                              Len(sd.train_scenes))),
         valid |-> ConcatDataset(ConcatScenes(dk, sd.validation_scenes, "valid",
                                              Len(sd.validation_scenes))),
         test |-> ConcatDataset(ConcatScenes(dk, sd.test_scenes, "test",
                                             Len(sd.test_scenes)))]

\* GeoDataConfig.build.
GeoDataConfig_build(d, dk, g) == OverallCap(d, GeoDataConfig_make_datasets(d, dk), g)

\* ------------------------------------------------------ ExternalModuleConfig

\* A slip that only rejects the config that sets neither.
ExternalModuleConfig_validate_only_neither(e) ==
    IF IsNone(e.uri) /\ IsNone(e.github_repo) THEN "ConfigError" ELSE "none"

\* ExternalModuleConfig.validate_config: the exception raised, or "none".
ExternalModuleConfig_validate_config(e) ==
    LET has_uri == ~IsNone(e.uri)
        has_repo == ~IsNone(e.github_repo)
    IN  IF has_uri = has_repo THEN "ConfigError" ELSE "none"

\* --------------------------------------------------------------- SolverConfig

\* A slip that tests ignore_last_class for truthiness: 'force' is truthy.
SolverConfig_validate_truthy(s) ==
    LET has_weights == ~IsNone(s.class_loss_weights)
        has_external_loss_def == ~IsNone(s.external_loss_def)
    IN  IF s.ignore_last_class # "False" /\ has_external_loss_def THEN "ConfigError"
        ELSE IF has_weights /\ has_external_loss_def THEN "ConfigError"
        ELSE "none"

\* SolverConfig.validate_config: the exception raised, or "none".
\* ignore_last_class is "False", "True" or "force".
SolverConfig_validate_config(s) ==
    LET has_weights == ~IsNone(s.class_loss_weights)
        has_external_loss_def == ~IsNone(s.external_loss_def)
    IN  IF s.ignore_last_class = "True" /\ has_external_loss_def THEN "ConfigError"
        ELSE IF has_weights /\ has_external_loss_def THEN "ConfigError"
        ELSE "none"

\* -------------------------------------------- LearnerConfig.validate_config

\* LearnerConfig.validate_class_loss_weights
validate_class_loss_weights(s, d) ==
    IF IsNone(s.class_loss_weights) THEN "none"
    ELSE IF Len(Val(s.class_loss_weights)) # num_classes(d) THEN "ConfigError"
    ELSE "none"

LearnerConfig_validate_weights_only(l, s, d) ==
    validate_class_loss_weights(s, d)

LearnerConfig_validate_config(l, s, d) ==
    IF l.run_tensorboard /\ ~l.log_tensorboard THEN "ConfigError"
    ELSE validate_class_loss_weights(s, d)

\* -------------------------------------------------------- GeoDataWindowConfig

IntSz(v) == [kind |-> "int", v |-> v]
PairSz(h, w) == [kind |-> "pair", h |-> h, w |-> w]

\* GeoDataWindowConfig.update.  size is Union[PosInt, Tuple[PosInt, PosInt]];
\* "self.size + 1" on a tuple raises TypeError.
GeoDataWindowConfig_update(w) ==
    IF w.method = "random" /\ ~(~IsNone(w.size_lims) \/ ~IsNone(w.h_lims))
    THEN IF w.size.kind = "int"
         THEN [error |-> "none",
               window |-> [w EXCEPT !.size_lims = Some(<<w.size.v, w.size.v + 1>>)]]
         ELSE [error |-> "TypeError", window |-> w]
    ELSE [error |-> "none", window |-> w]

\* GeoDataWindowConfig.validate_config: update(), then the checks by method.
GeoDataWindowConfig_validate_config(w) ==
    LET u == GeoDataWindowConfig_update(w)
        c == u.window
        has_size_lims == ~IsNone(c.size_lims)
        has_h_lims == ~IsNone(c.h_lims)
        has_w_lims == ~IsNone(c.w_lims)
    IN  IF u.error # "none" THEN u
        ELSE IF c.method = "sliding"
        THEN [error |-> IF IsNone(c.stride) THEN "ConfigError" ELSE "none",
              window |-> c]
        ELSE IF has_size_lims = (has_w_lims \/ has_h_lims)
        THEN [error |-> "ConfigError", window |-> c]
        ELSE IF has_h_lims # has_w_lims
        THEN [error |-> "ConfigError", window |-> c]
        ELSE [error |-> "none", window |-> c]

\* --------------------------------------------- DataConfig.get_data_transforms

default_augmentors == <<"RandomRotate90", "HorizontalFlip", "VerticalFlip">>

\* The catalog of augmentor names validate_augmentors checks against.
augmentors ==
    <<"Blur", "RandomRotate90", "HorizontalFlip", "VerticalFlip", "GaussianBlur",
      "GaussNoise", "RGBShift", "ToGray">>

\* The keys of augmentors_dict; the value of a key is the albumentations
\* transform of that name.
augmentors_dict ==
    {"Blur", "RandomRotate90", "HorizontalFlip", "VerticalFlip", "GaussianBlur",
     "GaussNoise", "RGBShift", "ToGray"}

\* Albumentations transform objects.
Resize(h, w) == [tf |-> "Resize", height |-> h, width |-> w]
Augmentor(name) == [tf |-> name]
deserialize_albumentation_transform(d) == [tf |-> "deserialized", from |-> d]
Compose(tfs) == [tf |-> "Compose", transforms |-> tfs]

\* aug_transforms.append(augmentors_dict[augmentor]), KeyError caught: what
\* one name adds to the list.
LookupEveryName(augmentor) == <<Augmentor(augmentor)>>
Lookup(augmentor) ==
    IF augmentor \in augmentors_dict THEN <<Augmentor(augmentor)>> ELSE <<>>

RECURSIVE AugmentorLoop(_, _, _)
AugmentorLoop(names, i, aug_transforms) ==
    IF i > Len(names) THEN aug_transforms
    ELSE AugmentorLoop(names, i + 1, aug_transforms \o Lookup(names[i]))

\* DataConfig.get_data_transforms: the pair (base, aug) it returns.
get_data_transforms(d) ==
    LET base_tfs == <<Resize(d.img_sz, d.img_sz)>>
                      \o (IF ~IsNone(d.base_transform)
                          THEN <<deserialize_albumentation_transform(
                                     Val(d.base_transform))>>
                          ELSE <<>>)
        base_transform == Compose(base_tfs)
    IN  IF ~IsNone(d.aug_transform)
        THEN [base |-> base_transform,
              aug |-> Compose(<<base_transform,
                                deserialize_albumentation_transform(
                                    Val(d.aug_transform))>>)]
        ELSE [base |-> base_transform,
              aug |-> Compose(AugmentorLoop(d.augmentors, 1, <<base_transform>>))]

\* Config.validate_list(field, valid_options), for a list-valued field: every
\* element of the field must be one of the options.
validate_list(val, valid_options) ==
    IF \A i \in 1..Len(val) :
          \E j \in 1..Len(valid_options) : val[i] = valid_options[j]
    THEN "none" ELSE "ConfigError"

DataConfig_validate_augmentors(d) == validate_list(d.augmentors, augmentors)

DataConfig_validate_config(d) == DataConfig_validate_augmentors(d)

\* ImageDataConfig.validate_group_uris; sequence_like is the list form.
ImageDataConfig_validate_group_uris(d) ==
    LET has_group_train_sz == ~IsNone(d.group_train_sz)
        has_group_train_sz_rel == ~IsNone(d.group_train_sz_rel)
        has_group_uris == ~IsNone(d.group_uris)
    IN  IF has_group_train_sz /\ has_group_train_sz_rel THEN "ConfigError"
        ELSE IF has_group_train_sz /\ ~has_group_uris THEN "ConfigError"
        ELSE IF has_group_train_sz_rel /\ ~has_group_uris THEN "ConfigError"
        ELSE IF /\ has_group_train_sz
                /\ Val(d.group_train_sz).form = "list"
                /\ Len(Val(d.group_train_sz).vs) # Len(Val(d.group_uris))
        THEN "ConfigError"
        ELSE IF /\ has_group_train_sz_rel
                /\ Val(d.group_train_sz_rel).form = "list"
                /\ Len(Val(d.group_train_sz_rel).vs) # Len(Val(d.group_uris))
        THEN "ConfigError"
        ELSE "none"

\* ImageDataConfig.validate_config
ImageDataConfig_validate_config(d) ==
    LET e == DataConfig_validate_config(d)
    IN  IF e # "none" THEN e ELSE ImageDataConfig_validate_group_uris(d)

\* SceneDatasetConfig.all_scenes: the scenes of the three splits.
all_scenes(sd) == sd.train_scenes \o sd.validation_scenes \o sd.test_scenes

\* A slip that raises only when no scene at all has an entry.
GeoDataConfig_validate_no_scene_found(d) ==
    LET e == DataConfig_validate_config(d)
        scenes == all_scenes(d.scene_dataset)
    IN  IF e # "none" THEN e
        ELSE IF d.window_opts.kind = "dict"
                  /\ scenes # <<>>
                  /\ \A i \in 1..Len(scenes) :
                        scenes[i] \notin DOMAIN d.window_opts.items
        THEN "ConfigError"
        ELSE "none"

\* GeoDataConfig.validate_config; a scene is identified by its id.
GeoDataConfig_validate_config(d) ==
    LET e == DataConfig_validate_config(d)
        scenes == all_scenes(d.scene_dataset)
    IN  IF e # "none" THEN e
        ELSE IF d.window_opts.kind = "dict"
                  /\ \E i \in 1..Len(scenes) :
                        scenes[i] \notin DOMAIN d.window_opts.items
        THEN "ConfigError"
        ELSE "none"

\* ------------------------------------------------------------ initial states

NoArgs == [kind |-> "none"]

DefaultLearner ==
    [test_mode |-> FALSE, overfit_mode |-> FALSE, log_tensorboard |-> TRUE,
     run_tensorboard |-> FALSE]

\* The defaults of the SolverConfig fields the modelled code reads.
DefaultSolver ==
    [num_epochs |-> 10, test_num_epochs |-> 2, test_batch_sz |-> 4,
     overfit_num_steps |-> 1, batch_sz |-> 32, class_loss_weights |-> None,
     ignore_last_class |-> "False", external_loss_def |-> None]

DefaultPlotOptions == [channel_display_groups |-> None]

DefaultWindow ==
    [method |-> "sliding", size |-> IntSz(1), stride |-> Some(1),
     size_lims |-> None, h_lims |-> None, w_lims |-> None]

\* window_opts: Union[GeoDataWindowConfig, Dict[str, GeoDataWindowConfig]]
SingleWindowOpts(w) == [kind |-> "single", cfg |-> w]
DictWindowOpts(byId) == [kind |-> "dict", items |-> byId]

\* The defaults of the DataConfig / ImageDataConfig / GeoDataConfig fields
\* the modelled code reads.
DefaultData ==
    [type |-> "data", class_names |-> <<>>, class_colors |-> None,
     img_channels |-> None, img_sz |-> 256, train_sz |-> None,
     train_sz_rel |-> None, num_workers |-> 4,
     augmentors |-> default_augmentors, base_transform |-> None,
     aug_transform |-> None,
     plot_options |-> Some(DefaultPlotOptions),
     uri |-> None, group_uris |-> None, group_train_sz |-> None,
     group_train_sz_rel |-> None,
     scene_dataset |-> [train_scenes |-> <<>>, validation_scenes |-> <<>>,
                        test_scenes |-> <<>>],
     window_opts |-> SingleWindowOpts(DefaultWindow)]

DefaultExt == [uri |-> Some("uri"), github_repo |-> None]

Snapshot ==
    [learner |-> learner, solver |-> solver, data |-> data, ext |-> ext,
     window |-> window, rng |-> rng, io |-> io]

\* What every specification starts from, whatever it varies.
InitCommon ==
    /\ op = "init"
    /\ args = NoArgs
    /\ result = NoResult
    /\ error = "none"
    /\ io = <<>>
    /\ pre = Snapshot
    /\ given = window

ClassNames == { SubSeq(<<"building", "background", "water">>, 1, n) : n \in 0..MaxClasses }

PlotOptionsInputs ==
    { None,
      Some([channel_display_groups |-> None]),
      Some([channel_display_groups |-> Some(ListGroups(<< <<0, 1, 2>>, <<0, 1, 2>> >>))]),
      Some([channel_display_groups |-> Some(ListGroups(<< <<0, 1>>, <<3>> >>))]) }

\* ----------------------------------------------- LearnerConfig.update()

InitLearner ==
    /\ \E t \in BOOLEAN, o \in BOOLEAN :
          learner = [DefaultLearner EXCEPT !.test_mode = t, !.overfit_mode = o]
    /\ \E te \in {2, 3}, tb \in {4, 5} :
          solver = [DefaultSolver EXCEPT !.test_num_epochs = te, !.test_batch_sz = tb]
    /\ \E names \in ClassNames, sz \in 1..MaxImgSz, nw \in {0, 4},
          ch \in {None, Some(3)}, po \in PlotOptionsInputs,
          given_colors \in BOOLEAN :
          data = [DefaultData EXCEPT
                     !.class_names = names,
                     !.class_colors = IF given_colors
                                      THEN Some([i \in 1..Len(names) |-> "green"])
                                      ELSE None,
                     !.img_sz = sz, !.num_workers = nw,
                     !.img_channels = ch, !.plot_options = po]
    /\ ext = DefaultExt
    /\ window = DefaultWindow
    /\ disk = <<>>
    /\ rng = 0
    /\ InitCommon

\* learner.update()
Update ==
    \E colors \in [1..Len(data.class_names) -> Colors] :
        LET r == LearnerConfig_update(learner, solver, data, colors)
        IN  /\ learner' = r.learner
            /\ solver' = r.solver
            /\ data' = r.data
            /\ error' = r.error
            /\ op' = "update"
            /\ args' = NoArgs
            /\ result' = NoResult
            /\ pre' = Snapshot
            /\ UNCHANGED <<ext, window, given, disk, rng, io>>

NextLearner == Update

SpecLearner == InitLearner /\ [][NextLearner]_vars

\* data.update() returns on this data config, whatever colors it draws.
DataUpdateSucceeds(d) ==
    DataConfig_update(d, [i \in 1..Len(d.class_names) |-> "red"]).error = "none"

\* C1: update() with overfit_mode and test_mode both set (on a config whose
\* data.update succeeds) completes without error, halves data.img_sz,
\* replaces solver.overfit_num_steps by the solver's test-specific step count
\* and applies the test-mode overrides.
C1_UpdateInBothModes ==
    (op = "update" /\ pre.learner.overfit_mode /\ pre.learner.test_mode
        /\ DataUpdateSucceeds(pre.data))
    => /\ error = "none"
       /\ data.img_sz = pre.data.img_sz \div 2
       /\ "test_overfit_num_steps" \in DOMAIN pre.solver
       /\ solver.overfit_num_steps = pre.solver.test_overfit_num_steps
       /\ solver.num_epochs = pre.solver.test_num_epochs
       /\ solver.batch_sz = pre.solver.test_batch_sz
       /\ data.num_workers = 0

\* C2: after update() with test_mode set and overfit_mode unset,
\* data.num_workers is 0 and solver.num_epochs / solver.batch_sz hold the
\* values solver.test_num_epochs / solver.test_batch_sz had before the call;
\* with both modes unset num_workers, num_epochs, batch_sz and img_sz keep
\* their values.
C2_TestModeOverrides ==
    op = "update" =>
      /\ (pre.learner.test_mode /\ ~pre.learner.overfit_mode)
         => /\ data.num_workers = 0
            /\ solver.num_epochs = pre.solver.test_num_epochs
            /\ solver.batch_sz = pre.solver.test_batch_sz
      /\ (~pre.learner.test_mode /\ ~pre.learner.overfit_mode)
         => /\ data.num_workers = pre.data.num_workers
            /\ solver.num_epochs = pre.solver.num_epochs
            /\ solver.batch_sz = pre.solver.batch_sz
            /\ data.img_sz = pre.data.img_sz

C2_Witness ==
    /\ op = "update" /\ error = "none"
    /\ pre.learner.test_mode /\ ~pre.learner.overfit_mode
    /\ pre.data.num_workers = 4 /\ data.num_workers = 0
    /\ pre.solver.num_epochs = 10 /\ solver.num_epochs = 3
    /\ pre.solver.batch_sz = 32 /\ solver.batch_sz = 5

\* ------------------------------------------- random_subset_dataset, called

Fractions == { <<0, 1>>, <<1, 4>>, <<1, 2>>, <<3, 4>>, <<1, 1>> }
SizeArgs == {None} \cup { Some(k) : k \in (-1)..(MaxLen + 1) }
FractionArgs == {None} \cup { Some(f) : f \in Fractions }

InitSubset ==
    /\ learner = DefaultLearner
    /\ solver = DefaultSolver
    /\ data = DefaultData
    /\ ext = DefaultExt
    /\ window = DefaultWindow
    /\ disk = <<>>
    /\ rng \in RngStates
    /\ InitCommon

\* data.random_subset_dataset(ds, size, fraction) on a dataset of n samples.
RandomSubsetCall ==
    \E n \in 0..MaxLen, size \in SizeArgs, fraction \in FractionArgs :
        LET ds == ConcatDataset([i \in 1..n |-> <<1, i>>])
            r == random_subset_dataset(ds, size, fraction, rng)
        IN  /\ rng' = r.rng
            /\ error' = r.error
            /\ result' = IF r.error = "none"
                         THEN [kind |-> "dataset", ds |-> r.ds]
                         ELSE NoResult
            /\ op' = "random_subset_dataset"
            /\ args' = [kind |-> "subset", ds |-> ds, size |-> size,
                        fraction |-> fraction]
            /\ pre' = Snapshot
            /\ UNCHANGED <<learner, solver, data, ext, window, given, disk, io>>

\* Any other code of the process drawing from the global generator.
ConsumeRandom ==
    /\ rng' = NextRng(rng)
    /\ op' = "random"
    /\ args' = NoArgs
    /\ result' = NoResult
    /\ error' = "none"
    /\ pre' = Snapshot
    /\ UNCHANGED <<learner, solver, data, ext, window, given, disk, io>>

NextSubset == RandomSubsetCall \/ ConsumeRandom

SpecSubset == InitSubset /\ [][NextSubset]_vars

\* The permutation of 0..n-1 that a shuffle right after random.seed(1234)
\* yields: it depends on n alone.
FixedPermutation(n) == shuffle(n, seed(SeedValue)).inds

IsPermutation(x, n) ==
    Len(x) = n /\ \A v \in 0..(n - 1) : \E i \in 1..n : x[i] = v

\* The count asked for: size, or floor(n * fraction).
CountAsked(a) ==
    IF ~IsNone(a.size) THEN Val(a.size)
    ELSE (Len(a.ds.items) * Val(a.fraction)[1]) \div Val(a.fraction)[2]

\* C5: random_subset_dataset is deterministic: for a dataset of n samples and
\* a count k >= 0 (size, or floor(n * fraction)) it selects the first k
\* entries of the one fixed seed-1234 permutation of 0..n-1, whatever state
\* the generator was in before the call.
C5_SubsetDeterministic ==
    (op = "random_subset_dataset" /\ IsNone(args.size) # IsNone(args.fraction)
        /\ CountAsked(args) >= 0)
    => LET n == Len(args.ds.items)
           perm == FixedPermutation(n)
       IN  /\ error = "none"
           /\ IsPermutation(perm, n)
           /\ result.ds.kind = "Subset"
           /\ result.ds.indices = SubSeq(perm, 1, Min(CountAsked(args), n))
           /\ result.ds.items =
                 [j \in 1..Len(result.ds.indices) |->
                     args.ds.items[result.ds.indices[j] + 1]]

C5_Witness ==
    /\ op = "random_subset_dataset" /\ error = "none"
    /\ Len(args.ds.items) = 4 /\ args.fraction = Some(<<3, 4>>) /\ IsNone(args.size)
    /\ pre.rng # seed(SeedValue)
    /\ Len(result.ds.indices) = 3
    /\ result.ds.indices # <<0, 1, 2>>

\* C6: called with both size and fraction, random_subset_dataset raises
\* before it selects or reseeds (the generator keeps its state); called with
\* neither, it returns the dataset it was given, and leaves the generator alone.
C6_ArgumentCheck ==
    op = "random_subset_dataset" =>
      /\ (~IsNone(args.size) /\ ~IsNone(args.fraction))
         => (error = "ValueError" /\ result = NoResult /\ rng = pre.rng)
      /\ (IsNone(args.size) /\ IsNone(args.fraction))
         => (error = "none" /\ result.ds = args.ds /\ rng = pre.rng)

C6_Witness ==
    /\ op = "random_subset_dataset" /\ error = "ValueError"
    /\ ~IsNone(args.size) /\ ~IsNone(args.fraction)
    /\ Len(args.ds.items) = 3
    /\ rng = pre.rng /\ rng # seed(SeedValue)

\* ------------------------------------------------------------ build()

SourceLists == { <<1>>, <<1, 2>> }

DiskEntries == [train : 0..MaxTrain, valid : {1, 2}, test : {1}]

TrainSzInputs == {None} \cup { Some(k) : k \in 0..(MaxTrain + 1) }
TrainSzRelInputs == { None, Some(<<1, 2>>), Some(<<1, 1>>) }

\* The per-group caps a config with group_uris may hold: at most one of
\* group_train_sz and group_train_sz_rel, a list having one entry per group.
GroupCapInputs(n) ==
    { [sz |-> None, rel |-> None],
      [sz |-> Some(Scalar(IntSize(1))), rel |-> None],
      [sz |-> Some(List([i \in 1..n |-> IntSize(i)])), rel |-> None],
      [sz |-> None, rel |-> Some(Scalar(FloatSize(<<1, 2>>)))] }

InitBuild ==
    /\ learner = DefaultLearner
    /\ solver = DefaultSolver
    /\ \E srcs \in SourceLists, tsz \in TrainSzInputs, rel \in TrainSzRelInputs :
          /\ disk \in [1..Len(srcs) -> DiskEntries]
          /\ \/ data = [DefaultData EXCEPT !.type = "image_data",
                           !.train_sz = tsz, !.train_sz_rel = rel,
                           !.uri = Some(1)]
                /\ srcs = <<1>>
             \/ \E caps \in GroupCapInputs(Len(srcs)) :
                   data = [DefaultData EXCEPT !.type = "image_data",
                              !.train_sz = tsz, !.train_sz_rel = rel,
                              !.group_uris = Some(srcs),
                              !.group_train_sz = caps.sz,
                              !.group_train_sz_rel = caps.rel]
             \/ data = [DefaultData EXCEPT !.type = "geo_data",
                           !.train_sz = tsz, !.train_sz_rel = rel,
                           !.scene_dataset = [train_scenes |-> srcs,
                                              validation_scenes |-> srcs,
                                              test_scenes |-> srcs]]
    /\ ext = DefaultExt
    /\ window = DefaultWindow
    /\ rng \in {0, 7}
    /\ InitCommon

Built(r) ==
    /\ rng' = r.rng
    /\ error' = r.error
    /\ result' = IF r.error = "none"
                 THEN [kind |-> "datasets", train |-> r.train, valid |-> r.valid,
                       test |-> r.test]
                 ELSE NoResult
    /\ op' = "build"
    /\ args' = NoArgs
    /\ pre' = Snapshot
    /\ UNCHANGED <<learner, solver, data, ext, window, given, disk, io>>

\* data.build(tmp_dir) on an ImageDataConfig
BuildImage ==
    /\ data.type = "image_data"
    /\ Built(ImageDataConfig_build(data, disk, rng))

\* data.build(tmp_dir) on a GeoDataConfig
BuildGeo ==
    /\ data.type = "geo_data"
    /\ Built(GeoDataConfig_build(data, disk, rng))

NextBuild == BuildImage \/ BuildGeo

SpecBuild == InitBuild /\ [][NextBuild]_vars

RECURSIVE SumTrain(_, _, _)
SumTrain(dk, srcs, i) ==
    IF i = 0 THEN 0 ELSE SumTrain(dk, srcs, i - 1) + dk[srcs[i]].train

\* The sources the config reads its training samples from, and how many
\* training samples they hold together.
TrainSources(d) ==
    IF d.type = "geo_data" THEN d.scene_dataset.train_scenes
    ELSE IF IsNone(d.group_uris) THEN <<Val(d.uri)>>
    ELSE Val(d.group_uris)

TrainAvailable(d, dk) == SumTrain(dk, TrainSources(d), Len(TrainSources(d)))

\* The count the overall cap asks for: train_sz, or floor(n * train_sz_rel).
OverallCount(d, n) ==
    IF ~IsNone(d.train_sz) THEN Val(d.train_sz)
    ELSE (n * Val(d.train_sz_rel)[1]) \div Val(d.train_sz_rel)[2]

\* The number of samples of source u in a dataset.
CountOf(ds, u) == Cardinality({ i \in 1..Len(ds.items) : ds.items[i][1] = u })

\* C3: ImageDataConfig.build applies the overall training cap (train_sz /
\* train_sz_rel) to the training dataset it returns when group_uris is
\* unset, and does not apply it when group_uris is set.
C3_OverallCapOnlyUngrouped ==
    (op = "build" /\ data.type = "image_data" /\ error = "none"
        /\ IsNone(data.train_sz) # IsNone(data.train_sz_rel))
    => LET n == TrainAvailable(data, disk)
       IN  /\ IsNone(data.group_uris)
              => Len(result.train.items) = Min(OverallCount(data, n), n)
           /\ ~IsNone(data.group_uris)
              => Len(result.train.items) = n

\* The cap of group i of a config with group_train_sz or group_train_sz_rel.
GroupCap(d, dk, i) ==
    LET size == Val(GroupSizes(d.group_train_sz, d.group_train_sz_rel,
                               Len(Val(d.group_uris)))[i])
    IN  IF size.t = "int" THEN size.n
        ELSE (dk[Val(d.group_uris)[i]].train * size.f[1]) \div size.f[2]

\* C4: with group_uris and group_train_sz or group_train_sz_rel, the training
\* dataset ImageDataConfig.build returns holds, of each group, at most the
\* group's cap (the count, or the truncated proportion of the group's
\* training samples); the validation and test datasets are not capped.
C4_PerGroupCaps ==
    (op = "build" /\ data.type = "image_data" /\ error = "none"
        /\ ~IsNone(data.group_uris)
        /\ (~IsNone(data.group_train_sz) \/ ~IsNone(data.group_train_sz_rel)))
    => LET uris == Val(data.group_uris)
       IN  /\ \A i \in 1..Len(uris) :
                 CountOf(result.train, uris[i]) <= GroupCap(data, disk, i)
           /\ \A i \in 1..Len(uris) :
                 /\ CountOf(result.valid, uris[i]) = disk[uris[i]].valid
                 /\ CountOf(result.test, uris[i]) = disk[uris[i]].test

\* C7: if train_sz is set and fewer than train_sz training images exist,
\* building the datasets (GeoDataConfig.build) raises an exception.
C7_TooFewTrainingImagesRaises ==
    (op = "build" /\ data.type = "geo_data" /\ ~IsNone(data.train_sz)
        /\ IsNone(data.train_sz_rel)
        /\ TrainAvailable(data, disk) < Val(data.train_sz))
    => error # "none"

\* ------------------------------------------------------ validate_config()

ExtInputs == [uri : {None, Some("uri")}, github_repo : {None, Some("owner/repo")}]

SolverInputs ==
    { [DefaultSolver EXCEPT !.class_loss_weights = w, !.ignore_last_class = i,
                            !.external_loss_def = e] :
        w \in {None, Some(<<>>), Some(<<1, 2>>)},
        i \in {"False", "True", "force"},
        e \in {None} \cup { Some(x) : x \in ExtInputs } }

WindowSizes ==
    { IntSz(v) : v \in 1..MaxWindowSize }
        \cup { PairSz(h, w) : h \in 1..MaxWindowSize, w \in 1..MaxWindowSize }

Lims == { None, Some(<<1, 3>>) }

WindowInputs ==
    [method : {"sliding", "random"}, size : WindowSizes,
     stride : {None, Some(1)}, size_lims : Lims, h_lims : Lims, w_lims : Lims]

\* class_loss_weights: None or a list of weights.
WeightInputs ==
    {None} \cup { Some([i \in 1..n |-> 1]) : n \in 0..(MaxClasses + 1) }

LearnerInputs ==
    { [DefaultLearner EXCEPT !.log_tensorboard = lg, !.run_tensorboard = rn] :
        lg \in BOOLEAN, rn \in BOOLEAN }

SceneIds == 1..MaxScenes

SceneLists == {<<>>} \cup { <<id>> : id \in SceneIds }

WindowOptsInputs ==
    {SingleWindowOpts(DefaultWindow)}
        \cup { DictWindowOpts([id \in ids |-> DefaultWindow]) : ids \in SUBSET SceneIds }

GeoDataInputs ==
    { [DefaultData EXCEPT !.type = "geo_data",
                          !.scene_dataset = [train_scenes |-> tr,
                                             validation_scenes |-> va,
                                             test_scenes |-> te],
                          !.window_opts = wo, !.augmentors = names,
                          !.aug_transform = aug] :
        tr \in SceneLists, va \in SceneLists, te \in SceneLists,
        wo \in WindowOptsInputs,
        names \in {default_augmentors, <<"Sharpen">>},
        aug \in {None, Some("RandomCrop")} }

\* One config of one class is drawn; the others hold their defaults.
InitValidate ==
    /\ \/ /\ ext \in ExtInputs /\ solver = DefaultSolver /\ window = DefaultWindow
          /\ learner = DefaultLearner /\ data = DefaultData
       \/ /\ ext = DefaultExt /\ solver \in SolverInputs /\ window = DefaultWindow
          /\ learner = DefaultLearner /\ data = DefaultData
       \/ /\ ext = DefaultExt /\ solver = DefaultSolver /\ window \in WindowInputs
          /\ learner = DefaultLearner /\ data = DefaultData
       \/ /\ ext = DefaultExt /\ window = DefaultWindow
          /\ learner \in LearnerInputs
          /\ \E w \in WeightInputs :
                solver = [DefaultSolver EXCEPT !.class_loss_weights = w]
          /\ \E names \in ClassNames :
                data = [DefaultData EXCEPT !.class_names = names]
       \/ /\ ext = DefaultExt /\ solver = DefaultSolver /\ window = DefaultWindow
          /\ learner = DefaultLearner /\ data \in GeoDataInputs
    /\ disk = <<>>
    /\ rng = 0
    /\ InitCommon

Validated(name, err) ==
    /\ op' = name
    /\ error' = err
    /\ args' = NoArgs
    /\ result' = NoResult
    /\ pre' = Snapshot

\* ext.validate_config()
ValidateExternalModule ==
    /\ Validated("ExternalModuleConfig.validate_config",
                 ExternalModuleConfig_validate_config(ext))
    /\ UNCHANGED <<learner, solver, data, ext, window, given, disk, rng, io>>

\* solver.validate_config()
ValidateSolver ==
    /\ Validated("SolverConfig.validate_config", SolverConfig_validate_config(solver))
    /\ UNCHANGED <<learner, solver, data, ext, window, given, disk, rng, io>>

\* window.validate_config()
ValidateWindow ==
    LET r == GeoDataWindowConfig_validate_config(window)
    IN  /\ Validated("GeoDataWindowConfig.validate_config", r.error)
        /\ window' = r.window
        /\ UNCHANGED <<learner, solver, data, ext, given, disk, rng, io>>

\* window.update()
UpdateWindow ==
    LET r == GeoDataWindowConfig_update(window)
    IN  /\ Validated("GeoDataWindowConfig.update", r.error)
        /\ window' = r.window
        /\ UNCHANGED <<learner, solver, data, ext, given, disk, rng, io>>

\* learner.validate_config()
ValidateLearner ==
    /\ Validated("LearnerConfig.validate_config",
                 LearnerConfig_validate_config(learner, solver, data))
    /\ UNCHANGED <<learner, solver, data, ext, window, given, disk, rng, io>>

\* data.validate_config() of a GeoDataConfig
ValidateGeoData ==
    /\ data.type = "geo_data"
    /\ Validated("GeoDataConfig.validate_config", GeoDataConfig_validate_config(data))
    /\ UNCHANGED <<learner, solver, data, ext, window, given, disk, rng, io>>

NextValidate ==
    \/ ValidateExternalModule
    \/ ValidateSolver
    \/ ValidateWindow
    \/ UpdateWindow
    \/ ValidateLearner
    \/ ValidateGeoData

SpecValidate == InitValidate /\ [][NextValidate]_vars

\* C8: ExternalModuleConfig.validate_config raises a configuration error if
\* and only if uri and github_repo are both set or both unset.
C8_ExactlyOneOfUriAndRepo ==
    op = "ExternalModuleConfig.validate_config" =>
      ((error = "ConfigError")
          <=> \/ (~IsNone(ext.uri) /\ ~IsNone(ext.github_repo))
              \/ (IsNone(ext.uri) /\ IsNone(ext.github_repo)))
      /\ error \in {"none", "ConfigError"}

C8_Witness ==
    /\ op = "ExternalModuleConfig.validate_config"
    /\ ~IsNone(ext.uri) /\ ~IsNone(ext.github_repo)
    /\ error = "ConfigError"

\* C9: SolverConfig.validate_config raises a configuration error if and only
\* if external_loss_def is set and (ignore_last_class is True or
\* class_loss_weights is not None); external_loss_def with
\* ignore_last_class = 'force' and no class weights is accepted.
C9_ExternalLossConflicts ==
    op = "SolverConfig.validate_config" =>
      /\ (error = "ConfigError")
           <=> (~IsNone(solver.external_loss_def)
                  /\ (solver.ignore_last_class = "True"
                        \/ ~IsNone(solver.class_loss_weights)))
      /\ error \in {"none", "ConfigError"}

C9_Witness ==
    /\ op = "SolverConfig.validate_config"
    /\ ~IsNone(solver.external_loss_def)
    /\ solver.ignore_last_class = "force"
    /\ IsNone(solver.class_loss_weights)
    /\ error = "none"

\* The limits the config was constructed with.
Supplied(w) ==
    { f \in {"size_lims", "h_lims", "w_lims"} : ~IsNone(w[f]) }

\* C10: GeoDataWindowConfig.validate_config with method = sliding raises iff
\* stride is unset; with method = random it succeeds iff the limits supplied
\* are none, size_lims alone, or h_lims and w_lims together, and after a
\* successful call exactly one of size_lims and the pair (h_lims, w_lims) is
\* set.
C10_WindowValidation ==
    op = "GeoDataWindowConfig.validate_config" =>
      /\ given.method = "sliding"
         => ((error # "none") <=> IsNone(given.stride))
      /\ given.method = "random"
         => /\ (error = "none")
                 <=> Supplied(given) \in { {}, {"size_lims"}, {"h_lims", "w_lims"} }
            /\ error = "none"
                 => (~IsNone(window.size_lims))
                       # (~IsNone(window.h_lims) /\ ~IsNone(window.w_lims))

\* C11: GeoDataWindowConfig.update() sets size_lims to (size, size + 1) when
\* method is random, size is an integer and none of size_lims, h_lims and
\* w_lims was specified; when method is sliding or any of the three ranges
\* was specified, it leaves size_lims, h_lims and w_lims unchanged.
C11_UpdateDefaultsSizeLims ==
    op = "GeoDataWindowConfig.update" =>
      /\ (pre.window.method = "random" /\ pre.window.size.kind = "int"
            /\ Supplied(pre.window) = {})
         => /\ error = "none"
            /\ window.size_lims
                 = Some(<<pre.window.size.v, pre.window.size.v + 1>>)
      /\ (pre.window.method = "sliding" \/ Supplied(pre.window) # {})
         => /\ window.size_lims = pre.window.size_lims
            /\ window.h_lims = pre.window.h_lims
            /\ window.w_lims = pre.window.w_lims

\* ------------------- PlotOptions.validate_and_update_channel_display_groups

\* Groups of NonNegInt channel indices: the first n channels, and one channel.
GroupInputs ==
    { RangeSeq(n) : n \in 0..MaxGroupLen } \cup { <<c>> : c \in 0..MaxChannels }

\* channel_display_groups: None, a sequence of groups, or a dict of titled
\* groups (the keys of a dict are distinct).
ChannelDisplayGroupsInputs ==
    {None}
      \cup { Some(ListGroups(gs)) :
               gs \in {<<>>} \cup { <<g>> : g \in GroupInputs }
                             \cup { <<g, h>> : g, h \in GroupInputs } }
      \cup { Some(DictGroups(items)) :
               items \in {<<>>}
                  \cup { << [k |-> Title("RGB"), v |-> g] >> : g \in GroupInputs }
                  \cup { << [k |-> Title("RGB"), v |-> g],
                            [k |-> Title("IR"), v |-> h] >> : g, h \in GroupInputs } }

InitPlot ==
    /\ \E g \in ChannelDisplayGroupsInputs :
          data = [DefaultData EXCEPT
                     !.plot_options = Some([channel_display_groups |-> g])]
    /\ learner = DefaultLearner
    /\ solver = DefaultSolver
    /\ ext = DefaultExt
    /\ window = DefaultWindow
    /\ disk = <<>>
    /\ rng = 0
    /\ InitCommon

\* plot_options.validate_and_update_channel_display_groups(img_channels):
\* the method returns the mapping and assigns no field.
ValidateChannelDisplayGroups ==
    \E img_channels \in 1..MaxChannels :
        LET r == validate_and_update_channel_display_groups(
                     Val(data.plot_options).channel_display_groups, img_channels)
        IN  /\ op' = "validate_and_update_channel_display_groups"
            /\ args' = [kind |-> "img_channels", img_channels |-> img_channels]
            /\ error' = r.error
            /\ result' = IF r.error = "none"
                         THEN [kind |-> "groups", items |-> Val(r.groups).items]
                         ELSE NoResult
            /\ pre' = Snapshot
            /\ UNCHANGED <<learner, solver, data, ext, window, given, disk, rng, io>>

NextPlot == ValidateChannelDisplayGroups

SpecPlot == InitPlot /\ [][NextPlot]_vars

\* The groups the user supplied, whichever form they came in.
SuppliedGroups(groups) ==
    IF IsNone(groups) THEN {}
    ELSE IF Val(groups).form = "list"
    THEN { Val(groups).groups[i] : i \in 1..Len(Val(groups).groups) }
    ELSE { Val(groups).items[i].v : i \in 1..Len(Val(groups).items) }

WithinBounds(v, img_channels) ==
    /\ Len(v) \in 1..3
    /\ \A i \in 1..Len(v) : v[i] \in 0..(img_channels - 1)

\* C12: validate_and_update_channel_display_groups(img_channels) either
\* raises a configuration error or returns a name-to-indices mapping in which
\* every group has between 1 and 3 indices and every index lies in
\* [0, img_channels); it raises whenever a supplied group violates either
\* bound; with no groups set it returns exactly the group 'Input' holding
\* channels 0 .. min(3, img_channels) - 1.
C12_ChannelDisplayGroups ==
    op = "validate_and_update_channel_display_groups" =>
      LET groups == Val(data.plot_options).channel_display_groups
          ch == args.img_channels
      IN  /\ \/ error = "ConfigError"
             \/ /\ error = "none"
                /\ result.kind = "groups"
                /\ \A i \in 1..Len(result.items) :
                      WithinBounds(result.items[i].v, ch)
          /\ (\E v \in SuppliedGroups(groups) : ~WithinBounds(v, ch))
                => error = "ConfigError"
          /\ IsNone(groups)
                => /\ error = "none"
                   /\ result.items
                        = << [k |-> Title("Input"),
                              v |-> [i \in 1..Min(3, ch) |-> i - 1]] >>

C12_Witness ==
    /\ op = "validate_and_update_channel_display_groups"
    /\ Val(data.plot_options).channel_display_groups
         = Some(ListGroups(<< <<0, 1, 2>>, <<3>> >>))
    /\ args.img_channels = 4
    /\ error = "none"
    /\ Len(result.items) = 2
    /\ result.items[2].v = <<3>>

\* ------------------------------------------- ImageDataConfig.get_data_dirs

\* A URI is the sequence of its path components; what a top-level name holds
\* is read from the file system fs.
join(u, name) == Append(u, name)

UriNames == {"a.zip", "b", "s3://c.zip"}
ZipNames == {"a.zip", "s3://c.zip", "x.zip", "y.zip"}

\* uri.endswith('.zip')
endswith_zip(u) == u[Len(u)] \in ZipNames

\* all(uri.endswith('.zip') for uri in zip_uris)
SomeEndWithZip(uris) == \E i \in 1..Len(uris) : endswith_zip(uris[i])
AllEndWithZip(uris) == \A i \in 1..Len(uris) : endswith_zip(uris[i])

file_exists(fs, u, include_dir) ==
    \/ fs[u[1]].kind = "file"
    \/ include_dir /\ fs[u[1]].kind = "dir"

list_paths(fs, u) ==
    [i \in 1..Len(fs[u[1]].names) |-> join(u, fs[u[1]].names[i])]

is_data_dir(fs, u) ==
    /\ file_exists(fs, u, TRUE)
    /\ \E i \in 1..Len(list_paths(fs, u)) : list_paths(fs, u)[i] = join(u, "train")
    /\ \E i \in 1..Len(list_paths(fs, u)) : list_paths(fs, u)[i] = join(u, "valid")

\* get_local_path: a local URI is its own local path, a remote one gets a
\* path under the download directory.
get_local_path(u, unzip_dir) ==
    IF u[1] = "s3://c.zip" THEN <<unzip_dir, "s3", "c.zip">> ELSE u

Effect(f, u) == [f |-> f, uri |-> u]

RECURSIVE unzip_loop(_, _, _, _, _, _)
\* The loop of unzip_data from index i on.  Fetching a top-level URI that is
\* not a file fails in the storage layer, after the fetch was attempted.
unzip_loop(fs, zip_uris, unzip_dir, i, data_dirs, log) ==
    IF i > Len(zip_uris)
    THEN [error |-> "none", data_dirs |-> data_dirs, io |-> log]
    ELSE LET zip_uri == zip_uris[i]
             fetched == Append(log, Effect("download_if_needed", zip_uri))
             data_dir == join(unzip_dir, i - 1)
         IN  IF Len(zip_uri) = 1 /\ ~file_exists(fs, zip_uri, FALSE)
             THEN [error |-> "NotReadableError", data_dirs |-> <<>>, io |-> fetched]
             ELSE unzip_loop(fs, zip_uris, unzip_dir, i + 1,
                             Append(data_dirs, data_dir),
                             Append(fetched, Effect("unzip", zip_uri)))

\* unzip_data: the directories are made under a fresh uuid4 directory.
unzip_data(fs, zip_uris, unzip_dir, log) ==
    unzip_loop(fs, zip_uris, <<unzip_dir, "data", "uuid4">>, 1, <<>>, log)

UriList(uris) == [kind |-> "list", uris |-> uris]
UriStr(u) == [kind |-> "str", uri |-> u]

\* ImageDataConfig.get_data_dirs(uri, unzip_dir): the error it raises, the
\* directories it returns and the effects log after it.
get_data_dirs(fs, uri, unzip_dir, log) ==
    LET fail(e) == [error |-> e, data_dirs |-> <<>>, io |-> log]
    IN  IF uri.kind = "list"
        THEN IF ~AllEndWithZip(uri.uris) THEN fail("ValueError")
             ELSE unzip_data(fs, uri.uris, unzip_dir, log)
        ELSE IF file_exists(fs, uri.uri, FALSE)
        THEN IF ~endswith_zip(uri.uri) THEN fail("ValueError")
             ELSE unzip_data(fs, <<uri.uri>>, unzip_dir, log)
        ELSE IF file_exists(fs, uri.uri, TRUE)
        THEN IF is_data_dir(fs, uri.uri)
             THEN LET local_path == get_local_path(uri.uri, unzip_dir)
                  IN  [error |-> "none", data_dirs |-> <<local_path>>,
                       io |-> IF uri.uri # local_path
                              THEN Append(log, Effect("sync_from_dir", uri.uri))
                              ELSE log]
             ELSE unzip_data(fs, SelectSeq(list_paths(fs, uri.uri), endswith_zip),
                             unzip_dir, log)
        ELSE fail("FileNotFoundError")

\* What a top-level name can hold: nothing, a file, or a directory listing.
Listings == { <<>>, <<"train">>, <<"train", "valid">>, <<"x.zip", "y.zip">> }

FsEntries ==
    { [kind |-> "missing"], [kind |-> "file"] }
        \cup { [kind |-> "dir", names |-> l] : l \in Listings }

UriArgs ==
    { UriStr(<<n>>) : n \in UriNames }
        \cup { UriList(uris) :
                 uris \in UNION { [1..k -> { <<n>> : n \in UriNames }] : k \in 0..MaxUris } }

InitDirs ==
    /\ disk \in [UriNames -> FsEntries]
    /\ learner = DefaultLearner
    /\ solver = DefaultSolver
    /\ data = DefaultData
    /\ ext = DefaultExt
    /\ window = DefaultWindow
    /\ rng = 0
    /\ InitCommon

\* data.get_data_dirs(uri, unzip_dir)
GetDataDirs ==
    /\ Len(io) <= MaxIo
    /\ \E uri \in UriArgs :
        LET r == get_data_dirs(disk, uri, "/opt/data/tmp", io)
        IN  /\ op' = "get_data_dirs"
            /\ args' = uri
            /\ error' = r.error
            /\ result' = IF r.error = "none"
                         THEN [kind |-> "data_dirs", data_dirs |-> r.data_dirs]
                         ELSE NoResult
            /\ io' = r.io
            /\ pre' = Snapshot
            /\ UNCHANGED <<learner, solver, data, ext, window, given, disk, rng>>

NextDirs == GetDataDirs

SpecDirs == InitDirs /\ [][NextDirs]_vars

\* C13: get_data_dirs raises a value error when given a URI list in which at
\* least one entry does not end in '.zip', a not-found error when given a
\* single URI that exists neither as a file nor as a directory, and a value
\* error when given a single existing file not ending in '.zip'; whenever it
\* raises one of these, no download, sync or unzip has been performed.
C13_GetDataDirsErrors ==
    op = "get_data_dirs" =>
      /\ (args.kind = "list"
            /\ \E i \in 1..Len(args.uris) : args.uris[i][1] \notin ZipNames)
         => error = "ValueError"
      /\ (args.kind = "str" /\ disk[args.uri[1]].kind = "missing")
         => error = "FileNotFoundError"
      /\ (args.kind = "str" /\ disk[args.uri[1]].kind = "file"
            /\ args.uri[1] \notin ZipNames)
         => error = "ValueError"
      /\ error \in {"ValueError", "FileNotFoundError"} => io = pre.io

C13_Witness ==
    /\ op = "get_data_dirs"
    /\ args = UriList(<< <<"a.zip">>, <<"b">> >>)
    /\ disk["a.zip"].kind = "file"
    /\ error = "ValueError"
    /\ pre.io # <<>>
    /\ io = pre.io

\* ------------------------------------ DataConfig transforms and validation

AugmentorNames == augmentors_dict \cup {"Sharpen"}

AugmentorInputs == UNION { [1..k -> AugmentorNames] : k \in 0..MaxAugmentors }

InitData ==
    /\ \E sz \in 1..MaxImgSz, names \in AugmentorInputs,
          base \in {None, Some("Normalize")}, aug \in {None, Some("RandomCrop")} :
          data = [DefaultData EXCEPT !.img_sz = sz, !.augmentors = names,
                                     !.base_transform = base,
                                     !.aug_transform = aug]
    /\ learner = DefaultLearner
    /\ solver = DefaultSolver
    /\ ext = DefaultExt
    /\ window = DefaultWindow
    /\ disk = <<>>
    /\ rng = 0
    /\ InitCommon

\* data.get_data_transforms()
GetDataTransforms ==
    LET r == get_data_transforms(data)
    IN  /\ op' = "get_data_transforms"
        /\ args' = NoArgs
        /\ error' = "none"
        /\ result' = [kind |-> "transforms", base |-> r.base, aug |-> r.aug]
        /\ pre' = Snapshot
        /\ UNCHANGED <<learner, solver, data, ext, window, given, disk, rng, io>>

\* data.validate_config()
ValidateData ==
    /\ Validated("DataConfig.validate_config", DataConfig_validate_config(data))
    /\ UNCHANGED <<learner, solver, data, ext, window, given, disk, rng, io>>

NextData == GetDataTransforms \/ ValidateData

SpecData == InitData /\ [][NextData]_vars

RECURSIVE Applied(_)
\* The elementary transforms of a pipeline in the order they are applied.
Applied(t) ==
    IF t.tf # "Compose" THEN <<t>>
    ELSE IF t.transforms = <<>> THEN <<>>
    ELSE Applied(t.transforms[1])
           \o Applied([t EXCEPT !.transforms = Tail(t.transforms)])

InCatalog(name) == name \in augmentors_dict

ExpectedBase(d) ==
    <<[tf |-> "Resize", height |-> d.img_sz, width |-> d.img_sz]>>
      \o (IF IsNone(d.base_transform) THEN <<>>
          ELSE <<[tf |-> "deserialized", from |-> Val(d.base_transform)]>>)

PositionOf(applied, d) ==
    IF \E i \in 1..Len(applied) : applied[i] = [tf |-> "deserialized", from |-> d]
    THEN CHOOSE i \in 1..Len(applied) : applied[i] = [tf |-> "deserialized", from |-> d]
    ELSE 0

\* C15: when aug_transform is provided, in the training pipeline built by
\* get_data_transforms the aug_transform is applied before base_transform.
C15_AugBeforeBase ==
    (op = "get_data_transforms" /\ ~IsNone(data.aug_transform)
        /\ ~IsNone(data.base_transform))
      => LET applied == Applied(result.aug)
         IN  /\ PositionOf(applied, Val(data.aug_transform)) > 0
             /\ PositionOf(applied, Val(data.aug_transform))
                  < PositionOf(applied, Val(data.base_transform))

\* C16: DataConfig.validate_config rejects a config whose augmentors list
\* holds a name outside the catalog of 8 operations, unless a custom
\* aug_transform is supplied, in which case the config is accepted whatever
\* the augmentors list holds.
C16_AugmentorsValidated ==
    op = "DataConfig.validate_config" =>
      IF IsNone(data.aug_transform)
      THEN (error = "ConfigError")
             <=> \E i \in 1..Len(data.augmentors) : ~InCatalog(data.augmentors[i])
      ELSE error = "none"

\* C17: with test_mode = True and overfit_mode = False, LearnerConfig.update()
\* cuts the image size data.img_sz in half.
C17_TestModeHalvesImgSz ==
    (op = "update" /\ pre.learner.test_mode /\ ~pre.learner.overfit_mode
        /\ error = "none")
      => data.img_sz = pre.data.img_sz \div 2

\* C18: LearnerConfig.validate_config raises a configuration error if and
\* only if run_tensorboard is true while log_tensorboard is false, or
\* solver.class_loss_weights is not None and its length differs from
\* data.num_classes, the number of declared class names.
C18_LearnerValidation ==
    op = "LearnerConfig.validate_config" =>
      /\ (error = "ConfigError")
           <=> \/ learner.run_tensorboard /\ ~learner.log_tensorboard
               \/ /\ solver.class_loss_weights # None
                  /\ Len(solver.class_loss_weights[1]) # Len(data.class_names)
      /\ error \in {"none", "ConfigError"}

C18_Witness ==
    /\ op = "LearnerConfig.validate_config"
    /\ learner.run_tensorboard /\ ~learner.log_tensorboard
    /\ solver.class_loss_weights = Some(<<1, 1>>)
    /\ Len(data.class_names) = 2
    /\ error = "ConfigError"

\* Some scene of the three splits has an id with no entry in the mapping.
SceneWithoutEntry(d) ==
    \E id \in SceneIds :
        /\ \/ \E i \in 1..Len(d.scene_dataset.train_scenes) :
                 d.scene_dataset.train_scenes[i] = id
           \/ \E i \in 1..Len(d.scene_dataset.validation_scenes) :
                 d.scene_dataset.validation_scenes[i] = id
           \/ \E i \in 1..Len(d.scene_dataset.test_scenes) :
                 d.scene_dataset.test_scenes[i] = id
        /\ id \notin DOMAIN d.window_opts.items

UnknownAugmentor(d) ==
    \E i \in 1..Len(d.augmentors) : d.augmentors[i] \notin augmentors_dict

Backbone ==
    {"alexnet", "densenet121", "densenet169", "densenet201", "densenet161",
     "googlenet", "inception_v3", "mnasnet0_5", "mnasnet0_75", "mnasnet1_0",
     "mnasnet1_3", "mobilenet_v2", "resnet18", "resnet34", "resnet50",
     "resnet101", "resnet152", "resnext50_32x4d", "resnext101_32x8d",
     "wide_resnet50_2", "wide_resnet101_2", "shufflenet_v2_x0_5",
     "shufflenet_v2_x1_0", "shufflenet_v2_x1_5", "shufflenet_v2_x2_0",
     "squeezenet1_0", "squeezenet1_1", "vgg11", "vgg11_bn", "vgg13",
     "vgg13_bn", "vgg16", "vgg16_bn", "vgg19_bn", "vgg19"}

\* The dict of Backbone.int_to_str: its keys are 1..35 in order, so the value
\* of key i is the i-th name here.
mapping ==
    <<"alexnet", "densenet121", "densenet169", "densenet201", "densenet161",
      "googlenet", "inception_v3", "mnasnet0_5", "mnasnet0_75", "mnasnet1_0",
      "mnasnet1_3", "mobilenet_v2", "resnet18", "resnet34", "resnet50",
      "resnet101", "resnet152", "resnext50_32x4d", "resnext101_32x8d",
      "wide_resnet50_2", "wide_resnet101_2", "shufflenet_v2_x0_5",
      "shufflenet_v2_x1_0", "shufflenet_v2_x1_5", "shufflenet_v2_x2_0",
      "squeezenet1_0", "squeezenet1_1", "vgg11", "vgg11_bn", "vgg13",
      "vgg13_bn", "vgg16", "vgg16_bn", "vgg19_bn", "vgg19">>

\* A backbone field as stored: an integer id or a name.
IntBackbone(i) == [kind |-> "int", id |-> i]
StrBackbone(name) == [kind |-> "str", name |-> name]

\* Backbone.int_to_str(x): mapping[x], a KeyError when x is not a key.
int_to_str(x) ==
    IF x.kind = "int" /\ x.id \in 1..Len(mapping)
    THEN [error |-> "none", value |-> StrBackbone(mapping[x.id])]
    ELSE [error |-> "KeyError", value |-> x]

model_config_upgrader_every_version(cfg_dict, version) ==
    LET r == int_to_str(cfg_dict.backbone)
    IN  [error |-> r.error, cfg_dict |-> [cfg_dict EXCEPT !.backbone = r.value]]

model_config_upgrader(cfg_dict, version) ==
    IF version = 0
    THEN LET r == int_to_str(cfg_dict.backbone)
         IN  [error |-> r.error, cfg_dict |-> [cfg_dict EXCEPT !.backbone = r.value]]
    ELSE [error |-> "none", cfg_dict |-> cfg_dict]

\* Stored model configs: an integer id (also just outside the table) or a
\* name, with the pretrained field besides.
CfgDictInputs ==
    { [backbone |-> b, pretrained |-> TRUE] :
        b \in { IntBackbone(i) : i \in 0..(Len(mapping) + 1) }
                \cup { StrBackbone(n) : n \in Backbone } }

InitUpgrade ==
    /\ learner = DefaultLearner
    /\ solver = DefaultSolver
    /\ data = DefaultData
    /\ ext = DefaultExt
    /\ window = DefaultWindow
    /\ disk = <<>>
    /\ rng = 0
    /\ InitCommon

\* model_config_upgrader(cfg_dict, version)
Upgrade ==
    \E cfg_dict \in CfgDictInputs, version \in 0..MaxVersion :
        LET r == model_config_upgrader(cfg_dict, version)
        IN  /\ op' = "model_config_upgrader"
            /\ args' = [kind |-> "upgrade", cfg_dict |-> cfg_dict, version |-> version]
            /\ error' = r.error
            /\ result' = IF r.error = "none"
                         THEN [kind |-> "cfg_dict", cfg_dict |-> r.cfg_dict]
                         ELSE NoResult
            /\ pre' = Snapshot
            /\ UNCHANGED <<learner, solver, data, ext, window, given, disk, rng, io>>

NextUpgrade == Upgrade

SpecUpgrade == InitUpgrade /\ [][NextUpgrade]_vars

\* C20: model_config_upgrader at stored version 0 replaces an integer
\* backbone id i in 1..35 by the name at position i of the lookup table (13
\* gives 'resnet18'); the table is injective and every name it yields is a
\* member of the Backbone enumeration; at any version other than 0 the config
\* dictionary is returned unchanged.
C20_BackboneUpgrade ==
    op = "model_config_upgrader" =>
      LET b == args.cfg_dict.backbone
      IN  /\ (args.version = 0 /\ b.kind = "int" /\ b.id \in 1..35)
               => /\ error = "none"
                  /\ result.cfg_dict
                       = [args.cfg_dict EXCEPT
                            !.backbone = [kind |-> "str", name |-> mapping[b.id]]]
                  /\ result.cfg_dict.backbone.name \in Backbone
                  /\ b.id = 13 => result.cfg_dict.backbone.name = "resnet18"
          /\ args.version # 0
               => error = "none" /\ result.cfg_dict = args.cfg_dict
          /\ Len(mapping) = 35
          /\ \A i, j \in 1..Len(mapping) : mapping[i] = mapping[j] => i = j

C20_Witness ==
    /\ op = "model_config_upgrader"
    /\ args.version = 0
    /\ args.cfg_dict.backbone = IntBackbone(13)
    /\ error = "none"
    /\ result.cfg_dict.backbone = StrBackbone("resnet18")

\* ------------------------------------- Classification (ml_tasks) windows

\* Box.make_square(ymin, xmin, size)
make_square(ymin, xmin, size) ==
    [ymin |-> ymin, xmin |-> xmin, ymax |-> ymin + size, xmax |-> xmin + size]

\* extent.get_windows(chip_size, stride): squares of side chip_size whose
\* corners step by stride over the rows, then the columns, of the extent.
get_windows(extent, chip_size, stride) ==
    LET RangeLen(n) == (n + stride - 1) \div stride   \* len(range(0, n, stride))
        rows == RangeLen(extent.height)
        cols == RangeLen(extent.width)
    IN  [k \in 1..(rows * cols) |->
            make_square(((k - 1) \div cols) * stride, ((k - 1) % cols) * stride,
                        chip_size)]

RECURSIVE SumCells(_, _, _)
\* np.sum(chip.ravel()) for the chip of a box: the sum of the pixels of
\* the raster inside the box, cell k onwards in row-major order.
SumCells(raster, box, k) ==
    IF k > raster.height * raster.width THEN 0
    ELSE LET r == (k - 1) \div raster.width
             c == (k - 1) % raster.width
             inside == /\ box.ymin <= r /\ r < box.ymax
                       /\ box.xmin <= c /\ c < box.xmax
         IN  (IF inside THEN raster.pixels[r][c] ELSE 0)
               + SumCells(raster, box, k + 1)

RECURSIVE TrainLoop(_, _, _, _)
TrainLoop(raster, tiles, i, windows) ==
    IF i > Len(tiles) THEN windows
    ELSE TrainLoop(raster, tiles, i + 1,
                   IF SumCells(raster, tiles[i], 1) > 0
                   THEN Append(windows, tiles[i]) ELSE windows)

get_train_windows_unfiltered(raster, chip_size) ==
    get_windows(raster, chip_size, chip_size)

\* Classification.get_train_windows(scene, options)
get_train_windows(raster, chip_size) ==
    TrainLoop(raster, get_windows(raster, chip_size, chip_size), 1, <<>>)

\* Classification.get_predict_windows(extent, options)
get_predict_windows(extent, chip_size) ==
    get_windows(extent, chip_size, chip_size)

\* Rasters of 8-bit pixels, as draw_debug_predict_image hands them to
\* Image.fromarray; here a pixel is 0 or 255.
RasterInputs ==
    UNION { { [height |-> h, width |-> w, pixels |-> px] :
                px \in [0..(h - 1) -> [0..(w - 1) -> {0, 255}]] } :
            h \in 1..MaxExtent, w \in 1..MaxExtent }

InitWindows ==
    /\ disk \in RasterInputs
    /\ learner = DefaultLearner
    /\ solver = DefaultSolver
    /\ data = DefaultData
    /\ ext = DefaultExt
    /\ window = DefaultWindow
    /\ rng = 0
    /\ InitCommon

Windowed(name, chip_size, windows) ==
    /\ op' = name
    /\ args' = [kind |-> "options", chip_size |-> chip_size]
    /\ error' = "none"
    /\ result' = [kind |-> "windows", windows |-> windows]
    /\ pre' = Snapshot
    /\ UNCHANGED <<learner, solver, data, ext, window, given, disk, rng, io>>

\* task.get_train_windows(scene, options)
GetTrainWindows ==
    \E chip_size \in 1..MaxChipSize :
        Windowed("get_train_windows", chip_size, get_train_windows(disk, chip_size))

\* task.get_predict_windows(scene.raster_source.get_extent(), options)
GetPredictWindows ==
    \E chip_size \in 1..MaxChipSize :
        Windowed("get_predict_windows", chip_size, get_predict_windows(disk, chip_size))

NextWindows == GetTrainWindows \/ GetPredictWindows

SpecWindows == InitWindows /\ [][NextWindows]_vars

\* The grid cells of side n over the extent, rows first.
Tiling(n) ==
    LET rows == { r \in 0..(disk.height - 1) : r % n = 0 }
        cols == { c \in 0..(disk.width - 1) : c % n = 0 }
    IN  [k \in 1..(Cardinality(rows) * Cardinality(cols)) |->
            LET r == n * ((k - 1) \div Cardinality(cols))
                c == n * ((k - 1) % Cardinality(cols))
            IN  [ymin |-> r, xmin |-> c, ymax |-> r + n, xmax |-> c + n]]

\* Whether some pixel of the raster inside the box is not zero; for 8-bit
\* pixels this is the chip not summing to zero.
NonZeroChip(box) ==
    \E r \in 0..(disk.height - 1), c \in 0..(disk.width - 1) :
        /\ box.ymin <= r /\ r < box.ymax /\ box.xmin <= c /\ c < box.xmax
        /\ disk.pixels[r][c] # 0

RECURSIVE IsSubsequence(_, _)
IsSubsequence(a, b) ==
    IF a = <<>> THEN TRUE
    ELSE IF b = <<>> THEN FALSE
    ELSE IF Head(a) = Head(b) THEN IsSubsequence(Tail(a), Tail(b))
    ELSE IsSubsequence(a, Tail(b))

C22_ImgSzStaysPositive ==
    (op = "update" /\ error = "none") => data.img_sz >= 1

\* C23 as stated: update() is idempotent; a call made after an earlier call
\* leaves every field of the learner, solver and data configs as it was.
C23_UpdateIdempotent ==
    [][(op = "update" /\ op' = "update")
         => (learner' = learner /\ solver' = solver /\ data' = data)]_vars

\* C23, amended: a call of update() made after an earlier call leaves every
\* field of the learner, solver and data configs as it was, except that with
\* overfit_mode set it halves data.img_sz once more.
C23_UpdateRepeatsOnlyHalving ==
    [][(op = "update" /\ op' = "update")
         => /\ learner' = learner
            /\ solver' = solver
            /\ data' = [data EXCEPT !.img_sz = IF learner.overfit_mode
                                               THEN data.img_sz \div 2
                                               ELSE data.img_sz]]_vars

\* A state after a second call: only update() leaves the display groups in
\* mapping form, and the config before this call already had them so.
C23_Witness ==
    /\ op = "update"
    /\ error = "none"
    /\ learner.test_mode /\ ~learner.overfit_mode
    /\ ~IsNone(pre.data.plot_options)
    /\ ~IsNone(Val(pre.data.plot_options).channel_display_groups)
    /\ Val(Val(pre.data.plot_options).channel_display_groups).form = "dict"
    /\ Len(pre.data.class_names) = 2
    /\ data = pre.data
    /\ solver = pre.solver

\* C24: for a data config on which validate_config succeeds, build never
\* fails with the "size or fraction but not both" ValueError of
\* random_subset_dataset.
C24_ValidConfigBuildsWithoutValueError ==
    (/\ op = "build"
     /\ (IF data.type = "geo_data" THEN GeoDataConfig_validate_config(data)
         ELSE ImageDataConfig_validate_config(data)) = "none")
        => error # "ValueError"

\* C25: given a list of valid groups, the mapping returned by
\* validate_and_update_channel_display_groups has exactly one entry per
\* supplied group, each holding that group's channels, also when two of the
\* supplied groups list the same channels.
C25_OneEntryPerSuppliedGroup ==
    (/\ op = "validate_and_update_channel_display_groups"
     /\ ~IsNone(Val(data.plot_options).channel_display_groups)
     /\ Val(Val(data.plot_options).channel_display_groups).form = "list"
     /\ error = "none")
        => LET gs == Val(Val(data.plot_options).channel_display_groups).groups
           IN  /\ Len(result.items) = Len(gs)
               /\ \A i \in 1..Len(gs) : result.items[i].v = gs[i]

\* C26: GeoDataWindowConfig.update(), and hence validate_config, completes
\* without error for an integer size and for a pair-valued size alike when
\* method is random and no limits are set, leaving size_lims a pair of
\* positive integers.
C26_UpdateAcceptsEverySize ==
    (/\ op \in {"GeoDataWindowConfig.update", "GeoDataWindowConfig.validate_config"}
     /\ pre.window.method = "random"
     /\ IsNone(pre.window.size_lims)
     /\ IsNone(pre.window.h_lims)
     /\ IsNone(pre.window.w_lims))
        => /\ error = "none"
           /\ ~IsNone(window.size_lims)
           /\ Len(Val(window.size_lims)) = 2
           /\ \A i \in 1..2 : Val(window.size_lims)[i] \in Nat \ {0}

====
